---- MODULE Spec2Model ----
(***************************************************************************)
(* gograb: one download task (downloadTask.start), its speed sampler       *)
(* (downloadTask.monitorSpeed), its rate limiter (rateLimiter.wait) and    *)
(* the environment they act on: the HTTP server, the destination file and  *)
(* the wall clock.                                                         *)
(*                                                                         *)
(* Sizes are counted in blocks of 1000 bytes, so the ceiling of a task     *)
(* created with prefix "<l>:" is l blocks per second.  File names are      *)
(* sequences of one-character strings; "NUL" stands for the byte 0.        *)
(* time.Time values are ticks of the clock; 0 is the zero time.Time.       *)
(***************************************************************************)
EXTENDS Integers, Sequences, FiniteSets, TLC

\* ---------------------------------------------------------------- bounds
MaxLen == 2        \* longest resource, in blocks
MaxExisting == 1   \* largest file already on disk, in blocks
MaxTicks == 1      \* how far the clock runs after the task is created
BufSize == 2       \* len(dt.buffer), in blocks (32 KiB in the program)

\* ------------------------------------------------------ program constants
Second == 1        \* time.Second, in clock ticks
LimitScale == 1    \* limit * 1000 bytes = limit blocks

StatusOK == 200
StatusPartialContent == 206
StatusNotFound == 404
StatusRangeNotSatisfiable == 416

Min(a, b) == IF a < b THEN a ELSE b

Iota(n) == [i \in 1..n |-> i]

\* the error values the task can hold
NoError == "nil"
EOF == "EOF"
ErrShortWrite == "short write"
ErrAlreadyDownloaded == "file already downloaded"
ErrHTTPStatus == "HTTP request failed with status"
ErrMissingFilename == "unable to determine filename"
ErrNilDeref == "invalid memory address or nil pointer dereference"
ErrUnexpectedEOF == "unexpected EOF"
ErrWrite == "write failed"
ErrOpen == "open failed"
ErrNotExist == "no such file or directory"

\* ---------------------------------------------------------- extractFilename
HasSuffixSlash(s) == Len(s) > 0 /\ s[Len(s)] = "/"

ContainsNUL(s) == \E i \in 1..Len(s) : s[i] = "NUL"

ContainsDotDotSlash(s) ==
    \E i \in 1..Len(s) : i + 2 <= Len(s) /\ s[i] = "." /\ s[i+1] = "." /\ s[i+2] = "/"

\* the elements of s between separators, in order
RECURSIVE SplitPath(_, _, _)
SplitPath(s, i, cur) ==
    IF i > Len(s) THEN <<cur>>
    ELSE IF s[i] = "/" THEN <<cur>> \o SplitPath(s, i + 1, <<>>)
    ELSE SplitPath(s, i + 1, Append(cur, s[i]))

\* path.Clean of a rooted path, as the list of its elements: empty and "."
\* elements are dropped, ".." removes the element before it and is dropped
\* at the root
RECURSIVE CleanRooted(_, _)
CleanRooted(elems, stack) ==
    IF elems = <<>> THEN stack
    ELSE LET e == Head(elems) IN
         IF e = <<>> \/ e = <<".">> THEN CleanRooted(Tail(elems), stack)
         ELSE IF e = <<".", ".">>
              THEN CleanRooted(Tail(elems),
                               IF stack = <<>> THEN stack
                               ELSE SubSeq(stack, 1, Len(stack) - 1))
              ELSE CleanRooted(Tail(elems), Append(stack, e))

\* filepath.Base(path.Clean("/" + filename))
BaseOfClean(filename) ==
    LET stack == CleanRooted(SplitPath(<<"/">> \o filename, 1, <<>>), <<>>)
    IN IF stack = <<>> THEN <<"/">> ELSE stack[Len(stack)]

NoHeader == <<"NOHEADER">>   \* the response has no usable Content-Disposition

\* extractFilename(response): the name and the error it returns
extractFilename(path, contentDisposition) ==
    LET filename == IF contentDisposition # NoHeader THEN contentDisposition ELSE path
    IN IF filename = <<>> \/ HasSuffixSlash(filename) \/ ContainsNUL(filename)
       THEN [name |-> <<>>, err |-> ErrMissingFilename]
       ELSE LET base == BaseOfClean(filename)
            IN IF base = <<>> \/ base = <<".">> \/ base = <<"/">>
               THEN [name |-> <<>>, err |-> ErrMissingFilename]
               ELSE [name |-> base, err |-> NoError]

\* ------------------------------------------------------------------- state
VARIABLES
    \* inputs and environment
    urlPath,            \* response.Request.URL.Path
    contentDisposition, \* params["filename"] of Content-Disposition, or NoHeader
    resourceLen,        \* length of the resource the URL names
    fs,                 \* the file at the derived name: kind and content
    fs0,                \* fs when the task was created
    now,                \* the wall clock
    \* downloadTask fields
    completionChan,     \* number of close(dt.completionChan) executed
    source,             \* dt.source: the unread rest of the response body
    sourceErr,          \* the error the body has reported (it repeats it)
    destination,        \* dt.destination / destinationFile: "nil" or "open"
    bytesPerSecond,     \* <<bytes downloaded, duration>> of the last sample
    error,              \* dt.error
    startTime,
    endTime,
    bytesRead,          \* dt.bytesRead
    totalFileSize,
    fileName,           \* dt.fileName
    isResumable,
    rateLimiter,        \* lastReadBytes, lastCheckTime, limit, and a pending sleep
    \* locals of start
    pc,
    response,
    localFileName,      \* fileName
    fileInfo,
    err,
    n,                  \* bytesRead (the local)
    bytesWritten,
    buffer,             \* dt.buffer[:bytesRead]
    panicValue,
    \* monitorSpeed
    spc,
    lastCheck,
    previousBytes,
    ticker,             \* next: when it fires next (0: stopped), c: the tick waiting in ticker.C (0: none)
    sample,             \* <<bytesDownloaded, duration>> computed, not yet stored
    \* history
    requests,           \* every request sent: its Range header and the response
    fsCalls,            \* every name handed to os.Stat, os.OpenFile, os.Create
    reads,              \* number of dt.source.Read calls
    writeFault,         \* a Write of this run has failed
    addedBefore,        \* bytes the loop had added to dt.bytesRead when the sampler last woke
    stalled,            \* the source has kept the loop waiting or returned a short chunk
    \* the driver in main: the task set and the wait for it
    tasks,              \* one entry per URL: what the renderer and the wait see of the task
    orch                \* the position of app.Action, and whether the process has died

envVars == <<urlPath, contentDisposition, resourceLen, fs, fs0, now>>
taskFields == <<completionChan, source, sourceErr, destination, bytesPerSecond, error,
                startTime, endTime, bytesRead, totalFileSize, fileName, isResumable,
                rateLimiter>>
startLocals == <<pc, response, localFileName, fileInfo, err, n, bytesWritten, buffer, panicValue>>
samplerVars == <<spc, lastCheck, previousBytes, ticker, sample>>
historyVars == <<requests, fsCalls, reads, writeFault, addedBefore, stalled>>
mainVars == <<tasks, orch>>

vars == <<envVars, taskFields, startLocals, samplerVars, historyVars, mainVars>>

\* ------------------------------------------------------------- environment
\* the names a response can carry
RawNames ==
    { <<"/", "a">>,                          \* http://host/a
      <<>>,                                  \* http://host
      <<"/", "a", "/">>,                     \* http://host/a/
      <<"/", "a", "NUL">>,
      <<"/", ".", ".">> }                    \* http://host/..

NameInputs ==
    { [path |-> p, cd |-> NoHeader] : p \in RawNames }
    \cup { [path |-> <<"/", "a">>, cd |-> c] : c \in {<<>>, <<".", ".", "/", "b">>} }   \* filename="", filename="../b"

NoFile == [kind |-> "none", content |-> <<>>]

ExistingFiles ==
    { NoFile, [kind |-> "dir", content |-> <<>>] }
    \cup { [kind |-> "file", content |-> Iota(s)] : s \in 0..MaxExisting }

PrefixLimits == {-1, 1}

Resource == Iota(resourceLen)

NilResponse == [nil |-> TRUE, status |-> 0, contentLength |-> 0, ranges |-> FALSE, body |-> <<>>]

Response(st, cl, rg, b) ==
    [nil |-> FALSE, status |-> st, contentLength |-> cl, ranges |-> rg, body |-> b]

\* what client.Do can return for the first request
FirstResponses ==
    { NilResponse, Response(StatusNotFound, 0, FALSE, <<>>) }
    \cup { Response(StatusOK, cl, FALSE, Resource) : cl \in {resourceLen, -1} }

\* what client.Do can return for the request with "Range: bytes=<s>-":
\* a failure, the rest of the resource from offset s (206 with Content-Range),
\* or the whole resource (200) from a server that ignores the header, with or
\* without "Accept-Ranges: bytes"
RangeResponses(s) ==
    { NilResponse, Response(StatusRangeNotSatisfiable, 0, FALSE, <<>>) }
    \cup (IF s < resourceLen
          THEN { Response(StatusPartialContent, cl, TRUE, SubSeq(Resource, s + 1, resourceLen))
                 : cl \in {resourceLen - s, -1} }
          ELSE {})
    \cup { Response(StatusOK, cl, rg, Resource) : cl \in {resourceLen, -1}, rg \in BOOLEAN }

NoFileInfo == [exists |-> FALSE, isDir |-> FALSE, size |-> 0]

\* the driver is not part of the run
NoDriver == [pc |-> "none", i |-> 0, crashed |-> FALSE, isFirstUpdate |-> TRUE]

\* newDownloadTask
newRateLimiter(limit) ==
    [lastReadBytes |-> 0, lastCheckTime |-> 0, limit |-> limit * LimitScale,
     wakeAt |-> 0, current |-> 0]

Init ==
    /\ \E ni \in NameInputs : urlPath = ni.path /\ contentDisposition = ni.cd
    /\ resourceLen \in 0..MaxLen
    /\ fs \in ExistingFiles
    /\ fs0 = fs
    /\ now = Second + 1
    /\ completionChan = 0
    /\ source = <<>>
    /\ sourceErr = NoError
    /\ destination = "nil"
    /\ bytesPerSecond = <<0, 1>>
    /\ error = NoError
    /\ startTime = 0
    /\ endTime = 0
    /\ bytesRead = 0
    /\ totalFileSize = 0
    /\ fileName = <<>>
    /\ isResumable = FALSE
    /\ \E l \in PrefixLimits : rateLimiter = newRateLimiter(l)
    /\ pc = "request"
    /\ response = NilResponse
    /\ localFileName = <<>>
    /\ fileInfo = NoFileInfo
    /\ err = NoError
    /\ n = 0
    /\ bytesWritten = 0
    /\ buffer = <<>>
    /\ panicValue = NoError
    /\ spc = "off"
    /\ lastCheck = 0
    /\ previousBytes = 0
    /\ ticker = [next |-> 0, c |-> 0]
    /\ sample = <<0, 1>>
    /\ requests = <<>>
    /\ fsCalls = <<>>
    /\ reads = 0
    /\ writeFault = FALSE
    /\ addedBefore = 0
    /\ stalled = FALSE
    /\ tasks = <<>>
    /\ orch = NoDriver

\* ------------------------------------------------------ downloadTask.start
NoRange == -1    \* a request without a Range header

\* the record kept of one request: its Range header and what came back
Exchange(range, r) ==
    [range |-> range, nil |-> r.nil, status |-> r.status,
     contentLength |-> r.contentLength, ranges |-> r.ranges]

\* variant: every status from 200 upwards is taken for success
StatusAccepted_AtLeastOK(r) == r.status >= StatusOK

StatusAccepted(r) == r.status = StatusOK \/ r.status = StatusPartialContent

\* the top of the for loop: the limiter is consulted only when it has a ceiling
LoopHead == IF rateLimiter.limit > 0 THEN "limit" ELSE "read"

\* client.Do(request) and the check of its result.  A failed request leaves
\* response nil, and formatting response.StatusCode then faults.
Request ==
    /\ pc = "request"
    /\ \E r \in FirstResponses :
          /\ requests' = Append(requests, Exchange(NoRange, r))
          /\ response' = r
          /\ err' = IF r.nil THEN ErrUnexpectedEOF ELSE NoError
          /\ IF r.nil
             THEN panicValue' = ErrNilDeref /\ pc' = "recover" /\ UNCHANGED error
             ELSE IF ~StatusAccepted(r)
                  THEN error' = ErrHTTPStatus /\ pc' = "close" /\ UNCHANGED panicValue
                  ELSE pc' = "extract" /\ UNCHANGED <<error, panicValue>>
    /\ UNCHANGED <<urlPath, contentDisposition, resourceLen, fs, fs0, now, completionChan,
                   source, sourceErr, destination, bytesPerSecond, startTime, endTime,
                   bytesRead, totalFileSize, fileName, isResumable, rateLimiter,
                   localFileName, fileInfo, n, bytesWritten, buffer, spc, lastCheck,
                   previousBytes, ticker, sample, fsCalls, reads, writeFault, addedBefore,
                   stalled, tasks, orch>>

\* fileName, err = extractFilename(response)
ExtractName ==
    /\ pc = "extract"
    /\ LET r == extractFilename(urlPath, contentDisposition)
       IN localFileName' = r.name /\ err' = r.err
    /\ pc' = "stat"
    /\ UNCHANGED <<urlPath, contentDisposition, resourceLen, fs, fs0, now, completionChan,
                   source, sourceErr, destination, bytesPerSecond, error, startTime, endTime,
                   bytesRead, totalFileSize, fileName, isResumable, rateLimiter, response,
                   fileInfo, n, bytesWritten, buffer, panicValue, spc, lastCheck,
                   previousBytes, ticker, sample, requests, fsCalls, reads, writeFault,
                   addedBefore, stalled, tasks, orch>>

\* os.Stat(name)
Stat(name) ==
    IF name # <<>> /\ fs.kind # "none"
    THEN [exists |-> TRUE, isDir |-> fs.kind = "dir", size |-> Len(fs.content)]
    ELSE NoFileInfo

\* variant: the sizes are compared with > instead of ==
AlreadyDownloaded_Greater(info, r) == info.size > r.contentLength

AlreadyDownloaded(info, r) == info.size = r.contentLength

\* fileInfo, err = os.Stat(fileName) and the already-downloaded check
StatFile ==
    /\ pc = "stat"
    /\ fsCalls' = Append(fsCalls, <<"Stat", localFileName>>)
    /\ LET info == Stat(localFileName) IN
          /\ fileInfo' = info
          /\ err' = IF info.exists THEN NoError ELSE ErrNotExist
          /\ IF info.exists /\ ~info.isDir
             THEN /\ response' = [response EXCEPT !.body = <<>>]
                  /\ IF AlreadyDownloaded(info, response)
                     THEN error' = ErrAlreadyDownloaded /\ pc' = "close"
                     ELSE pc' = "range" /\ UNCHANGED error
             ELSE pc' = "create" /\ UNCHANGED <<response, error>>
    /\ UNCHANGED <<urlPath, contentDisposition, resourceLen, fs, fs0, now, completionChan,
                   source, sourceErr, destination, bytesPerSecond, startTime, endTime,
                   bytesRead, totalFileSize, fileName, isResumable, rateLimiter,
                   localFileName, n, bytesWritten, buffer, panicValue, spc, lastCheck,
                   previousBytes, ticker, sample, requests, reads, writeFault, addedBefore,
                   stalled, tasks, orch>>

\* the request repeated with "Range: bytes=<size>-"
RangeRequest ==
    /\ pc = "range"
    /\ \E r \in RangeResponses(fileInfo.size) :
          /\ requests' = Append(requests, Exchange(fileInfo.size, r))
          /\ response' = r
          /\ err' = IF r.nil THEN ErrUnexpectedEOF ELSE NoError
          /\ IF r.nil
             THEN panicValue' = ErrNilDeref /\ pc' = "recover" /\ UNCHANGED error
             ELSE IF ~StatusAccepted(r)
                  THEN error' = ErrHTTPStatus /\ pc' = "close" /\ UNCHANGED panicValue
                  ELSE /\ pc' = IF r.ranges THEN "open" ELSE "create"
                       /\ UNCHANGED <<error, panicValue>>
    /\ UNCHANGED <<urlPath, contentDisposition, resourceLen, fs, fs0, now, completionChan,
                   source, sourceErr, destination, bytesPerSecond, startTime, endTime,
                   bytesRead, totalFileSize, fileName, isResumable, rateLimiter,
                   localFileName, fileInfo, n, bytesWritten, buffer, spc, lastCheck,
                   previousBytes, ticker, sample, fsCalls, reads, writeFault, addedBefore,
                   stalled, tasks, orch>>

\* os.OpenFile(fileName, os.O_RDWR, 0666), Seek to the end, seed bytesRead
OpenExisting ==
    /\ pc = "open"
    /\ fsCalls' = Append(fsCalls, <<"OpenFile", localFileName>>)
    /\ \E ok \in BOOLEAN :
          IF ok
          THEN /\ destination' = "open"
               /\ err' = NoError
               /\ bytesRead' = fileInfo.size
               /\ isResumable' = TRUE
               /\ pc' = "setup"
          ELSE /\ err' = ErrOpen
               /\ pc' = "close"
               /\ UNCHANGED <<destination, bytesRead, isResumable>>
    /\ UNCHANGED <<urlPath, contentDisposition, resourceLen, fs, fs0, now, completionChan,
                   source, sourceErr, bytesPerSecond, error, startTime, endTime,
                   totalFileSize, fileName, rateLimiter, response, localFileName, fileInfo, n,
                   bytesWritten, buffer, panicValue, spc, lastCheck, previousBytes, ticker,
                   sample, requests, reads, writeFault, addedBefore, stalled, tasks, orch>>

\* variant: the file is created without truncating what it holds
CreateFile_NoTruncate ==
    /\ pc = "create"
    /\ destination = "nil"
    /\ fsCalls' = Append(fsCalls, <<"Create", localFileName>>)
    /\ \E ok \in BOOLEAN :
          /\ ok => localFileName # <<>> /\ fs.kind # "dir"
          /\ IF ok
             THEN /\ fs' = [kind |-> "file", content |-> fs.content]
                  /\ destination' = "open"
                  /\ err' = NoError
                  /\ pc' = "setup"
             ELSE /\ err' = ErrOpen
                  /\ pc' = "close"
                  /\ UNCHANGED <<fs, destination>>
    /\ UNCHANGED <<urlPath, contentDisposition, resourceLen, fs0, now, completionChan, source,
                   sourceErr, bytesPerSecond, error, startTime, endTime, bytesRead,
                   totalFileSize, fileName, isResumable, rateLimiter, response, localFileName,
                   fileInfo, n, bytesWritten, buffer, panicValue, spc, lastCheck,
                   previousBytes, ticker, sample, requests, reads, writeFault, addedBefore,
                   stalled, tasks, orch>>

\* os.Create(fileName) when no file was opened for resume
CreateFile ==
    /\ pc = "create"
    /\ destination = "nil"
    /\ fsCalls' = Append(fsCalls, <<"Create", localFileName>>)
    /\ \E ok \in BOOLEAN :
          /\ ok => localFileName # <<>> /\ fs.kind # "dir"
          /\ IF ok
             THEN /\ fs' = [kind |-> "file", content |-> <<>>]
                  /\ destination' = "open"
                  /\ err' = NoError
                  /\ pc' = "setup"
             ELSE /\ err' = ErrOpen
                  /\ pc' = "close"
                  /\ UNCHANGED <<fs, destination>>
    /\ UNCHANGED <<urlPath, contentDisposition, resourceLen, fs0, now, completionChan, source,
                   sourceErr, bytesPerSecond, error, startTime, endTime, bytesRead,
                   totalFileSize, fileName, isResumable, rateLimiter, response, localFileName,
                   fileInfo, n, bytesWritten, buffer, panicValue, spc, lastCheck,
                   previousBytes, ticker, sample, requests, reads, writeFault, addedBefore,
                   stalled, tasks, orch>>

\* variant: the size already on disk is left out of the total
TotalFileSize_Plain(r, resumable, info) == r.contentLength

TotalFileSize(r, resumable, info) ==
    IF r.contentLength > 0 /\ resumable /\ info.exists
    THEN r.contentLength + info.size
    ELSE r.contentLength

\* dt.destination, dt.source, dt.fileName, dt.totalFileSize
Setup ==
    /\ pc = "setup"
    /\ source' = response.body
    /\ fileName' = localFileName
    /\ totalFileSize' = TotalFileSize(response, isResumable, fileInfo)
    /\ pc' = "go"
    /\ UNCHANGED <<urlPath, contentDisposition, resourceLen, fs, fs0, now, completionChan,
                   sourceErr, destination, bytesPerSecond, error, startTime, endTime,
                   bytesRead, isResumable, rateLimiter, response, localFileName, fileInfo,
                   err, n, bytesWritten, buffer, panicValue, spc, lastCheck, previousBytes,
                   ticker, sample, requests, fsCalls, reads, writeFault, addedBefore, stalled,
                   tasks, orch>>

\* go dt.monitorSpeed()
LaunchSampler ==
    /\ pc = "go"
    /\ spc' = "init"
    /\ pc' = "starttime"
    /\ UNCHANGED <<urlPath, contentDisposition, resourceLen, fs, fs0, now, completionChan,
                   source, sourceErr, destination, bytesPerSecond, error, startTime, endTime,
                   bytesRead, totalFileSize, fileName, isResumable, rateLimiter, response,
                   localFileName, fileInfo, err, n, bytesWritten, buffer, panicValue,
                   lastCheck, previousBytes, ticker, sample, requests, fsCalls, reads,
                   writeFault, addedBefore, stalled, tasks, orch>>

\* dt.startTime = time.Now()
RecordStart ==
    /\ pc = "starttime"
    /\ startTime' = now
    /\ pc' = LoopHead
    /\ UNCHANGED <<urlPath, contentDisposition, resourceLen, fs, fs0, now, completionChan,
                   source, sourceErr, destination, bytesPerSecond, error, endTime, bytesRead,
                   totalFileSize, fileName, isResumable, rateLimiter, response, localFileName,
                   fileInfo, err, n, bytesWritten, buffer, panicValue, spc, lastCheck,
                   previousBytes, ticker, sample, requests, fsCalls, reads, writeFault,
                   addedBefore, stalled, tasks, orch>>

\* ----------------------------------------------------------- rateLimiter.wait
\* the limiter after wait(currentReadBytes) called at time t; wakeAt > 0 when
\* the call sleeps first, and the checkpoint is then set on waking
\* variant: the limiter sleeps only once the ceiling is exceeded
wait_Exceeds(rl, t, currentReadBytes) ==
    LET elapsedTime == t - rl.lastCheckTime IN
    IF elapsedTime <= Second
    THEN IF currentReadBytes - rl.lastReadBytes > rl.limit
         THEN [rl EXCEPT !.wakeAt = t + (Second - elapsedTime), !.current = currentReadBytes]
         ELSE rl
    ELSE [rl EXCEPT !.lastReadBytes = currentReadBytes, !.lastCheckTime = t]

wait(rl, t, currentReadBytes) ==
    LET elapsedTime == t - rl.lastCheckTime IN
    IF elapsedTime <= Second
    THEN IF currentReadBytes - rl.lastReadBytes >= rl.limit
         THEN [rl EXCEPT !.wakeAt = t + (Second - elapsedTime), !.current = currentReadBytes]
         ELSE rl
    ELSE [rl EXCEPT !.lastReadBytes = currentReadBytes, !.lastCheckTime = t]

\* dt.rateLimiter.wait(dt.bytesRead), up to the sleep
LimiterWait ==
    /\ pc = "limit"
    /\ rateLimiter' = wait(rateLimiter, now, bytesRead)
    /\ pc' = IF rateLimiter'.wakeAt > 0 THEN "sleep" ELSE "read"
    /\ UNCHANGED <<urlPath, contentDisposition, resourceLen, fs, fs0, now, completionChan,
                   source, sourceErr, destination, bytesPerSecond, error, startTime, endTime,
                   bytesRead, totalFileSize, fileName, isResumable, response, localFileName,
                   fileInfo, err, n, bytesWritten, buffer, panicValue, spc, lastCheck,
                   previousBytes, ticker, sample, requests, fsCalls, reads, writeFault,
                   addedBefore, stalled, tasks, orch>>

\* time.Sleep returns; the checkpoint becomes (now, current)
LimiterWake ==
    /\ pc = "sleep"
    /\ now >= rateLimiter.wakeAt
    /\ rateLimiter' = [rateLimiter EXCEPT !.lastReadBytes = rateLimiter.current,
                                          !.lastCheckTime = now,
                                          !.wakeAt = 0, !.current = 0]
    /\ pc' = "read"
    /\ UNCHANGED <<urlPath, contentDisposition, resourceLen, fs, fs0, now, completionChan,
                   source, sourceErr, destination, bytesPerSecond, error, startTime, endTime,
                   bytesRead, totalFileSize, fileName, isResumable, response, localFileName,
                   fileInfo, err, n, bytesWritten, buffer, panicValue, spc, lastCheck,
                   previousBytes, ticker, sample, requests, fsCalls, reads, writeFault,
                   addedBefore, stalled, tasks, orch>>

\* ------------------------------------------------------------ the copy loop
\* bytesRead, err = dt.source.Read(dt.buffer): at most len(buffer) bytes,
\* io.EOF only once the body is delivered, and an error once reported repeats
ReadChunk ==
    /\ pc = "read"
    /\ reads' = reads + 1
    /\ IF sourceErr # NoError
       THEN /\ n' = 0 /\ buffer' = <<>> /\ err' = sourceErr
            /\ UNCHANGED <<source, sourceErr>>
       ELSE \E k \in 0..Min(BufSize, Len(source)), e \in {NoError, EOF, ErrUnexpectedEOF} :
               /\ e = NoError => k >= 1
               /\ e = EOF => k = Len(source)
               /\ n' = k
               /\ buffer' = SubSeq(source, 1, k)
               /\ source' = SubSeq(source, k + 1, Len(source))
               /\ sourceErr' = e
               /\ err' = e
    /\ pc' = IF n' > 0 THEN "write" ELSE IF err' # NoError THEN "seterr" ELSE LoopHead
    /\ UNCHANGED <<urlPath, contentDisposition, resourceLen, fs, fs0, now, completionChan,
                   destination, bytesPerSecond, error, startTime, endTime, bytesRead,
                   totalFileSize, fileName, isResumable, rateLimiter, response, localFileName,
                   fileInfo, bytesWritten, panicValue, spc, lastCheck, previousBytes, ticker,
                   sample, requests, fsCalls, writeFault, addedBefore, stalled, tasks, orch>>

\* variant: the result of Write is not checked
WriteFailed_Never(e, nRead, nWritten) == FALSE

WriteFailed(e, nRead, nWritten) == e # NoError \/ nRead # nWritten

\* bytesWritten, err = dt.destination.Write(dt.buffer[:bytesRead])
WriteChunk ==
    /\ pc = "write"
    /\ \E m \in 0..n :
          /\ bytesWritten' = m
          /\ err' = IF m = n THEN NoError ELSE ErrWrite
          /\ fs' = [fs EXCEPT !.content = fs.content \o SubSeq(buffer, 1, m)]
          /\ IF WriteFailed(err', n, m)
             THEN error' = ErrShortWrite /\ writeFault' = TRUE /\ pc' = "seterr"
             ELSE pc' = "add" /\ UNCHANGED <<error, writeFault>>
    /\ UNCHANGED <<urlPath, contentDisposition, resourceLen, fs0, now, completionChan, source,
                   sourceErr, destination, bytesPerSecond, startTime, endTime, bytesRead,
                   totalFileSize, fileName, isResumable, rateLimiter, response, localFileName,
                   fileInfo, n, buffer, panicValue, spc, lastCheck, previousBytes, ticker,
                   sample, requests, fsCalls, reads, addedBefore, stalled, tasks, orch>>

\* variant: len(dt.buffer) is added instead of the count Read returned
AddBytes_BufferLen ==
    /\ pc = "add"
    /\ bytesRead' = bytesRead + BufSize
    /\ pc' = IF err # NoError THEN "seterr" ELSE LoopHead
    /\ UNCHANGED <<urlPath, contentDisposition, resourceLen, fs, fs0, now, completionChan,
                   source, sourceErr, destination, bytesPerSecond, error, startTime, endTime,
                   totalFileSize, fileName, isResumable, rateLimiter, response, localFileName,
                   fileInfo, err, n, bytesWritten, buffer, panicValue, spc, lastCheck,
                   previousBytes, ticker, sample, requests, fsCalls, reads, writeFault,
                   addedBefore, stalled, tasks, orch>>

\* atomic.AddInt64(&dt.bytesRead, int64(bytesRead)) and the check of err
AddBytes ==
    /\ pc = "add"
    /\ bytesRead' = bytesRead + n
    /\ pc' = IF err # NoError THEN "seterr" ELSE LoopHead
    /\ UNCHANGED <<urlPath, contentDisposition, resourceLen, fs, fs0, now, completionChan,
                   source, sourceErr, destination, bytesPerSecond, error, startTime, endTime,
                   totalFileSize, fileName, isResumable, rateLimiter, response, localFileName,
                   fileInfo, err, n, bytesWritten, buffer, panicValue, spc, lastCheck,
                   previousBytes, ticker, sample, requests, fsCalls, reads, writeFault,
                   addedBefore, stalled, tasks, orch>>

\* dt.error = err
StoreError ==
    /\ pc = "seterr"
    /\ error' = err
    /\ pc' = "close"
    /\ UNCHANGED <<urlPath, contentDisposition, resourceLen, fs, fs0, now, completionChan,
                   source, sourceErr, destination, bytesPerSecond, startTime, endTime,
                   bytesRead, totalFileSize, fileName, isResumable, rateLimiter, response,
                   localFileName, fileInfo, err, n, bytesWritten, buffer, panicValue, spc,
                   lastCheck, previousBytes, ticker, sample, requests, fsCalls, reads,
                   writeFault, addedBefore, stalled, tasks, orch>>

\* close(dt.completionChan): after the loop and before each early return
CloseCompletion ==
    /\ pc = "close"
    /\ completionChan' = completionChan + 1
    /\ pc' = "endtime"
    /\ UNCHANGED <<urlPath, contentDisposition, resourceLen, fs, fs0, now, source, sourceErr,
                   destination, bytesPerSecond, error, startTime, endTime, bytesRead,
                   totalFileSize, fileName, isResumable, rateLimiter, response, localFileName,
                   fileInfo, err, n, bytesWritten, buffer, panicValue, spc, lastCheck,
                   previousBytes, ticker, sample, requests, fsCalls, reads, writeFault,
                   addedBefore, stalled, tasks, orch>>

\* variant: the terminal error is stored after the close, with the end time
RecordEnd_StoresError ==
    /\ pc = "endtime"
    /\ endTime' = now
    /\ error' = err
    /\ pc' = "done"
    /\ UNCHANGED <<urlPath, contentDisposition, resourceLen, fs, fs0, now, completionChan,
                   source, sourceErr, destination, bytesPerSecond, startTime, bytesRead,
                   totalFileSize, fileName, isResumable, rateLimiter, response, localFileName,
                   fileInfo, err, n, bytesWritten, buffer, panicValue, spc, lastCheck,
                   previousBytes, ticker, sample, requests, fsCalls, reads, writeFault,
                   addedBefore, stalled, tasks, orch>>

\* dt.endTime = time.Now()
RecordEnd ==
    /\ pc = "endtime"
    /\ endTime' = now
    /\ pc' = "done"
    /\ UNCHANGED <<urlPath, contentDisposition, resourceLen, fs, fs0, now, completionChan,
                   source, sourceErr, destination, bytesPerSecond, error, startTime,
                   bytesRead, totalFileSize, fileName, isResumable, rateLimiter, response,
                   localFileName, fileInfo, err, n, bytesWritten, buffer, panicValue, spc,
                   lastCheck, previousBytes, ticker, sample, requests, fsCalls, reads,
                   writeFault, addedBefore, stalled, tasks, orch>>

\* ------------------------------------------------------ the deferred recover
Recover ==
    /\ pc = "recover"
    /\ error' = panicValue
    /\ pc' = "rec_close"
    /\ UNCHANGED <<urlPath, contentDisposition, resourceLen, fs, fs0, now, completionChan,
                   source, sourceErr, destination, bytesPerSecond, startTime, endTime,
                   bytesRead, totalFileSize, fileName, isResumable, rateLimiter, response,
                   localFileName, fileInfo, err, n, bytesWritten, buffer, panicValue, spc,
                   lastCheck, previousBytes, ticker, sample, requests, fsCalls, reads,
                   writeFault, addedBefore, stalled, tasks, orch>>

\* variant: the recovery stores the error but does not close the channel
RecoverClose_NoClose ==
    /\ pc = "rec_close"
    /\ pc' = "rec_end"
    /\ UNCHANGED <<urlPath, contentDisposition, resourceLen, fs, fs0, now, completionChan,
                   source, sourceErr, destination, bytesPerSecond, error, startTime, endTime,
                   bytesRead, totalFileSize, fileName, isResumable, rateLimiter, response,
                   localFileName, fileInfo, err, n, bytesWritten, buffer, panicValue, spc,
                   lastCheck, previousBytes, ticker, sample, requests, fsCalls, reads,
                   writeFault, addedBefore, stalled, tasks, orch>>

RecoverClose ==
    /\ pc = "rec_close"
    /\ completionChan' = completionChan + 1
    /\ pc' = "rec_end"
    /\ UNCHANGED <<urlPath, contentDisposition, resourceLen, fs, fs0, now, source, sourceErr,
                   destination, bytesPerSecond, error, startTime, endTime, bytesRead,
                   totalFileSize, fileName, isResumable, rateLimiter, response, localFileName,
                   fileInfo, err, n, bytesWritten, buffer, panicValue, spc, lastCheck,
                   previousBytes, ticker, sample, requests, fsCalls, reads, writeFault,
                   addedBefore, stalled, tasks, orch>>

RecoverEnd ==
    /\ pc = "rec_end"
    /\ endTime' = now
    /\ pc' = "done"
    /\ UNCHANGED <<urlPath, contentDisposition, resourceLen, fs, fs0, now, completionChan,
                   source, sourceErr, destination, bytesPerSecond, error, startTime,
                   bytesRead, totalFileSize, fileName, isResumable, rateLimiter, response,
                   localFileName, fileInfo, err, n, bytesWritten, buffer, panicValue, spc,
                   lastCheck, previousBytes, ticker, sample, requests, fsCalls, reads,
                   writeFault, addedBefore, stalled, tasks, orch>>

\* ------------------------------------------------- downloadTask.monitorSpeed
\* previousBytes, lastCheck := dt.startTime, time.NewTicker(time.Second)
SamplerInit ==
    /\ spc = "init"
    /\ previousBytes' = 0
    /\ lastCheck' = startTime
    /\ ticker' = [next |-> now + Second, c |-> 0]
    /\ spc' = "select"
    /\ UNCHANGED <<urlPath, contentDisposition, resourceLen, fs, fs0, now, completionChan,
                   source, sourceErr, destination, bytesPerSecond, error, startTime, endTime,
                   bytesRead, totalFileSize, fileName, isResumable, rateLimiter, pc, response,
                   localFileName, fileInfo, err, n, bytesWritten, buffer, panicValue, sample,
                   requests, fsCalls, reads, writeFault, addedBefore, stalled, tasks, orch>>

\* case <-dt.completionChan: return (and the deferred ticker.Stop)
SamplerReturn ==
    /\ spc = "select"
    /\ completionChan > 0
    /\ ticker' = [next |-> 0, c |-> 0]
    /\ spc' = "exit"
    /\ UNCHANGED <<urlPath, contentDisposition, resourceLen, fs, fs0, now, completionChan,
                   source, sourceErr, destination, bytesPerSecond, error, startTime, endTime,
                   bytesRead, totalFileSize, fileName, isResumable, rateLimiter, pc, response,
                   localFileName, fileInfo, err, n, bytesWritten, buffer, panicValue,
                   lastCheck, previousBytes, sample, requests, fsCalls, reads, writeFault,
                   addedBefore, stalled, tasks, orch>>

\* time.Duration saturates; this is the duration from the zero time.Time to any
\* time of the run
MaxDuration == 2147483647

\* t.Sub(u), in ticks
Sub(t, u) == IF u = 0 THEN MaxDuration ELSE t - u

\* the bytes the copy loop has added to dt.bytesRead, the seed of a resumed
\* task left out
Added == bytesRead - (IF isResumable THEN fileInfo.size ELSE 0)

\* case now := <-ticker.C: the sample is computed
SamplerTick ==
    /\ spc = "select"
    /\ ticker.c # 0
    /\ sample' = <<bytesRead - previousBytes, Sub(ticker.c, lastCheck)>>
    /\ addedBefore' = Added
    /\ lastCheck' = ticker.c
    /\ previousBytes' = bytesRead
    /\ ticker' = [ticker EXCEPT !.c = 0]
    /\ spc' = "store"
    /\ UNCHANGED <<urlPath, contentDisposition, resourceLen, fs, fs0, now, completionChan,
                   source, sourceErr, destination, bytesPerSecond, error, startTime, endTime,
                   bytesRead, totalFileSize, fileName, isResumable, rateLimiter, pc, response,
                   localFileName, fileInfo, err, n, bytesWritten, buffer, panicValue,
                   requests, fsCalls, reads, writeFault, stalled, tasks, orch>>

\* dt.bytesPerSecond = float64(bytesDownloaded) / duration.Seconds(), under the mutex
SamplerStore ==
    /\ spc = "store"
    /\ bytesPerSecond' = sample
    /\ spc' = "select"
    /\ UNCHANGED <<urlPath, contentDisposition, resourceLen, fs, fs0, now, completionChan,
                   source, sourceErr, destination, error, startTime, endTime, bytesRead,
                   totalFileSize, fileName, isResumable, rateLimiter, pc, response,
                   localFileName, fileInfo, err, n, bytesWritten, buffer, panicValue,
                   lastCheck, previousBytes, ticker, sample, requests, fsCalls, reads,
                   writeFault, addedBefore, stalled, tasks, orch>>

\* ------------------------------------------------- what the renderer asks for
\* a / b as Go computes it for b > 0: the quotient is truncated towards zero
TruncDiv(a, b) == IF a >= 0 THEN a \div b ELSE -((-a) \div b)

\* int64(dt.bytesPerSecond) for the rate bytes / duration
Int64OfRate(bps) == bps[1] \div bps[2]

\* durationToString(seconds), as the list of its <<number, unit>> parts
RECURSIVE durationToString(_)
durationToString(seconds) ==
    IF seconds < 60 THEN << <<seconds, "s">> >>
    ELSE IF seconds < 3600
         THEN IF seconds % 60 = 0
              THEN << <<seconds \div 60, "m">> >>
              ELSE << <<seconds \div 60, "m">>, <<seconds % 60, "s">> >>
         ELSE IF seconds % 3600 = 0
              THEN << <<seconds \div 3600, "h">> >>
              ELSE << <<seconds \div 3600, "h">> >> \o durationToString(seconds % 3600)

NotAvailable == << <<0, "N/A">> >>

\* the division by int64(dt.bytesPerSecond) = 0 faults
DivideFault == << <<0, "integer divide by zero">> >>

\* dt.getETAString()
getETAString(total, read, bps) ==
    IF total = 0 \/ bps[1] = 0 THEN NotAvailable
    ELSE IF Int64OfRate(bps) = 0 THEN DivideFault
         ELSE durationToString(TruncDiv(total - read, Int64OfRate(bps)))

\* updateTerminal asks a task for its ETA when it shows no error and has bytes
RendererAsksETA(e, read) == (e = NoError \/ e = EOF) /\ read > 0

\* ------------------------------------------------------------------ the clock
\* one tick passes; a running ticker whose period is over puts the time in
\* ticker.C unless a tick is still waiting there
Tick ==
    /\ now < Second + 1 + MaxTicks
    /\ now' = now + 1
    /\ ticker' = IF ticker.next = now'
                 THEN [next |-> ticker.next + Second,
                       c |-> IF ticker.c = 0 THEN now' ELSE ticker.c]
                 ELSE ticker
    /\ UNCHANGED <<urlPath, contentDisposition, resourceLen, fs, fs0, completionChan, source,
                   sourceErr, destination, bytesPerSecond, error, startTime, endTime,
                   bytesRead, totalFileSize, fileName, isResumable, rateLimiter, pc, response,
                   localFileName, fileInfo, err, n, bytesWritten, buffer, panicValue, spc,
                   lastCheck, previousBytes, sample, requests, fsCalls, reads, writeFault,
                   addedBefore, stalled, tasks, orch>>

Next ==
    \/ Request \/ ExtractName \/ StatFile \/ RangeRequest \/ OpenExisting \/ CreateFile
    \/ Setup \/ LaunchSampler \/ RecordStart
    \/ LimiterWait \/ LimiterWake
    \/ ReadChunk \/ WriteChunk \/ AddBytes \/ StoreError \/ CloseCompletion \/ RecordEnd
    \/ Recover \/ RecoverClose \/ RecoverEnd
    \/ SamplerInit \/ SamplerReturn \/ SamplerTick \/ SamplerStore
    \/ Tick

Spec == Init /\ [][Next]_vars

\* ------------------------------------------- the limiter against a fast source
\* One task with prefix "50:" in its copy loop, counted in bytes: every Read
\* returns at once, a full buffer or a shorter chunk, and every Write succeeds.
MaxScenarioTicks == 3    \* how far the clock runs in this scenario

BufferBytes == 32 * 1024                 \* len(dt.buffer)
CeilingBytes(limit) == limit * 1000      \* rateLimiter.limit for the prefix "<limit>:"
ScenarioPrefix == 50

\* what a Read returns: a full buffer, or the chunk that fills the ceiling exactly
ChunkSizes == {BufferBytes, CeilingBytes(ScenarioPrefix) - BufferBytes}

InitLimit ==
    /\ urlPath = <<"/", "a">> /\ contentDisposition = NoHeader
    /\ resourceLen = 0
    /\ fs = NoFile /\ fs0 = NoFile
    /\ now = Second + 1
    /\ completionChan = 0
    /\ source = <<>> /\ sourceErr = NoError
    /\ destination = "open"
    /\ bytesPerSecond = <<0, 1>>
    /\ error = NoError
    /\ startTime = Second + 1
    /\ endTime = 0
    /\ bytesRead = 0
    /\ totalFileSize = -1
    /\ fileName = <<"a">>
    /\ isResumable = FALSE
    /\ rateLimiter = [newRateLimiter(ScenarioPrefix) EXCEPT !.limit = CeilingBytes(ScenarioPrefix)]
    /\ pc = "limit"
    /\ response = NilResponse
    /\ localFileName = <<"a">>
    /\ fileInfo = NoFileInfo
    /\ err = NoError
    /\ n = 0 /\ bytesWritten = 0 /\ buffer = <<>>
    /\ panicValue = NoError
    /\ spc = "off" /\ lastCheck = 0 /\ previousBytes = 0
    /\ ticker = [next |-> 0, c |-> 0]
    /\ sample = <<0, 1>>
    /\ requests = <<>> /\ fsCalls = <<>> /\ reads = 0
    /\ writeFault = FALSE
    /\ addedBefore = 0
    /\ stalled = FALSE
    /\ tasks = <<>>
    /\ orch = NoDriver

\* one pass of the loop body after the limiter: Read returns k bytes without
\* an error, Write takes them all, and they are added to dt.bytesRead
CopyChunk ==
    /\ pc = "read"
    /\ \E k \in ChunkSizes :
          /\ n' = k
          /\ bytesWritten' = k
          /\ bytesRead' = bytesRead + k
          /\ stalled' = (stalled \/ k < BufferBytes)
    /\ reads' = reads + 1
    /\ pc' = LoopHead
    /\ UNCHANGED <<urlPath, contentDisposition, resourceLen, fs, fs0, now, completionChan,
                   source, sourceErr, destination, bytesPerSecond, error, startTime, endTime,
                   totalFileSize, fileName, isResumable, rateLimiter, response, localFileName,
                   fileInfo, err, buffer, panicValue, spc, lastCheck, previousBytes, ticker,
                   sample, requests, fsCalls, writeFault, addedBefore, tasks, orch>>

\* a tick passes; unless the task is inside the limiter's sleep, something
\* else has kept it waiting
ScenarioTick ==
    /\ now < Second + 1 + MaxScenarioTicks
    /\ now' = now + 1
    /\ stalled' = (stalled \/ ~(pc = "sleep" /\ now < rateLimiter.wakeAt))
    /\ UNCHANGED <<urlPath, contentDisposition, resourceLen, fs, fs0, completionChan, source,
                   sourceErr, destination, bytesPerSecond, error, startTime, endTime,
                   bytesRead, totalFileSize, fileName, isResumable, rateLimiter, pc, response,
                   localFileName, fileInfo, err, n, bytesWritten, buffer, panicValue, spc,
                   lastCheck, previousBytes, ticker, sample, requests, fsCalls, reads,
                   writeFault, addedBefore, tasks, orch>>

NextLimit == LimiterWait \/ LimiterWake \/ CopyChunk \/ ScenarioTick

SpecLimit == InitLimit /\ [][NextLimit]_vars

\* --------------------------------------------- the orchestrator and its tasks
\* app.Action with NTasks URLs: each task is seen through the fields the
\* renderer and the in-order wait read; tasks[i].fired is "completionChan of
\* task i is closed". Every task transfers one block.
NTasks == 2    \* number of URLs on the command line

Rates == {<<0, 1>>, <<1, 1>>, <<1, MaxDuration>>}    \* what monitorSpeed can store for one block

NewTask == [fired |-> FALSE, error |-> NoError, bytesRead |-> 0, totalFileSize |-> 0,
            bytesPerSecond |-> <<0, 1>>]

InitMain ==
    /\ urlPath = <<"/", "a">> /\ contentDisposition = NoHeader
    /\ resourceLen = 0
    /\ fs = NoFile /\ fs0 = NoFile
    /\ now = Second + 1
    /\ completionChan = 0
    /\ source = <<>> /\ sourceErr = NoError
    /\ destination = "nil"
    /\ bytesPerSecond = <<0, 1>>
    /\ error = NoError
    /\ startTime = 0
    /\ endTime = 0
    /\ bytesRead = 0
    /\ totalFileSize = 0
    /\ fileName = <<>>
    /\ isResumable = FALSE
    /\ rateLimiter = newRateLimiter(-1)
    /\ pc = "request"
    /\ response = NilResponse
    /\ localFileName = <<>>
    /\ fileInfo = NoFileInfo
    /\ err = NoError
    /\ n = 0 /\ bytesWritten = 0 /\ buffer = <<>>
    /\ panicValue = NoError
    /\ spc = "off" /\ lastCheck = 0 /\ previousBytes = 0
    /\ ticker = [next |-> 0, c |-> 0]
    /\ sample = <<0, 1>>
    /\ requests = <<>> /\ fsCalls = <<>> /\ reads = 0
    /\ writeFault = FALSE
    /\ addedBefore = 0
    /\ stalled = FALSE
    /\ tasks = [i \in 1..NTasks |-> NewTask]
    /\ orch = [pc |-> "wait", i |-> 1, crashed |-> FALSE, isFirstUpdate |-> TRUE]

\* the process is alive: no goroutine has panicked without a recover
Alive == ~orch.crashed

\* task i ends on a rejected exchange before any byte is copied
TaskFail(i) ==
    /\ Alive
    /\ ~tasks[i].fired /\ tasks[i].bytesRead = 0
    /\ tasks' = [tasks EXCEPT ![i].error = ErrHTTPStatus, ![i].fired = TRUE]
    /\ UNCHANGED <<urlPath, contentDisposition, resourceLen, fs, fs0, now, completionChan,
                   source, sourceErr, destination, bytesPerSecond, error, startTime, endTime,
                   bytesRead, totalFileSize, fileName, isResumable, rateLimiter, pc, response,
                   localFileName, fileInfo, err, n, bytesWritten, buffer, panicValue, spc,
                   lastCheck, previousBytes, ticker, sample, requests, fsCalls, reads,
                   writeFault, addedBefore, stalled, orch>>

\* task i sets its total and copies its block
TaskCopy(i) ==
    /\ Alive
    /\ ~tasks[i].fired /\ tasks[i].bytesRead = 0
    /\ tasks' = [tasks EXCEPT ![i].totalFileSize = 1, ![i].bytesRead = 1]
    /\ UNCHANGED <<urlPath, contentDisposition, resourceLen, fs, fs0, now, completionChan,
                   source, sourceErr, destination, bytesPerSecond, error, startTime, endTime,
                   bytesRead, totalFileSize, fileName, isResumable, rateLimiter, pc, response,
                   localFileName, fileInfo, err, n, bytesWritten, buffer, panicValue, spc,
                   lastCheck, previousBytes, ticker, sample, requests, fsCalls, reads,
                   writeFault, addedBefore, stalled, orch>>

\* the sampler of task i stores a throughput
TaskSample(i) ==
    /\ Alive
    /\ ~tasks[i].fired /\ tasks[i].bytesRead > 0
    /\ \E r \in Rates : tasks' = [tasks EXCEPT ![i].bytesPerSecond = r]
    /\ UNCHANGED <<urlPath, contentDisposition, resourceLen, fs, fs0, now, completionChan,
                   source, sourceErr, destination, bytesPerSecond, error, startTime, endTime,
                   bytesRead, totalFileSize, fileName, isResumable, rateLimiter, pc, response,
                   localFileName, fileInfo, err, n, bytesWritten, buffer, panicValue, spc,
                   lastCheck, previousBytes, ticker, sample, requests, fsCalls, reads,
                   writeFault, addedBefore, stalled, orch>>

\* task i reaches end of body: dt.error = err; close(dt.completionChan)
TaskEnd(i) ==
    /\ Alive
    /\ ~tasks[i].fired /\ tasks[i].bytesRead > 0
    /\ tasks' = [tasks EXCEPT ![i].error = EOF, ![i].fired = TRUE]
    /\ UNCHANGED <<urlPath, contentDisposition, resourceLen, fs, fs0, now, completionChan,
                   source, sourceErr, destination, bytesPerSecond, error, startTime, endTime,
                   bytesRead, totalFileSize, fileName, isResumable, rateLimiter, pc, response,
                   localFileName, fileInfo, err, n, bytesWritten, buffer, panicValue, spc,
                   lastCheck, previousBytes, ticker, sample, requests, fsCalls, reads,
                   writeFault, addedBefore, stalled, orch>>

\* <-task.completionChan for the task the loop stands at
WaitTask ==
    /\ Alive
    /\ orch.pc = "wait"
    /\ tasks[orch.i].fired
    /\ orch' = [orch EXCEPT !.i = orch.i + 1,
                            !.pc = IF orch.i = NTasks THEN "sleep" ELSE "wait"]
    /\ UNCHANGED <<urlPath, contentDisposition, resourceLen, fs, fs0, now, completionChan,
                   source, sourceErr, destination, bytesPerSecond, error, startTime, endTime,
                   bytesRead, totalFileSize, fileName, isResumable, rateLimiter, pc, response,
                   localFileName, fileInfo, err, n, bytesWritten, buffer, panicValue, spc,
                   lastCheck, previousBytes, ticker, sample, requests, fsCalls, reads,
                   writeFault, addedBefore, stalled, tasks>>

\* time.Sleep(time.Second) returns
FinalSleep ==
    /\ Alive
    /\ orch.pc = "sleep"
    /\ orch' = [orch EXCEPT !.pc = "print"]
    /\ UNCHANGED <<urlPath, contentDisposition, resourceLen, fs, fs0, now, completionChan,
                   source, sourceErr, destination, bytesPerSecond, error, startTime, endTime,
                   bytesRead, totalFileSize, fileName, isResumable, rateLimiter, pc, response,
                   localFileName, fileInfo, err, n, bytesWritten, buffer, panicValue, spc,
                   lastCheck, previousBytes, ticker, sample, requests, fsCalls, reads,
                   writeFault, addedBefore, stalled, tasks>>

\* fmt.Println("Download completed."), and the action returns
PrintCompleted ==
    /\ Alive
    /\ orch.pc = "print"
    /\ orch' = [orch EXCEPT !.pc = "done"]
    /\ UNCHANGED <<urlPath, contentDisposition, resourceLen, fs, fs0, now, completionChan,
                   source, sourceErr, destination, bytesPerSecond, error, startTime, endTime,
                   bytesRead, totalFileSize, fileName, isResumable, rateLimiter, pc, response,
                   localFileName, fileInfo, err, n, bytesWritten, buffer, panicValue, spc,
                   lastCheck, previousBytes, ticker, sample, requests, fsCalls, reads,
                   writeFault, addedBefore, stalled, tasks>>

\* updateTerminal faults on task t: it asks for the ETA and the division panics
RenderFaults(t) ==
    /\ RendererAsksETA(t.error, t.bytesRead)
    /\ getETAString(t.totalFileSize, t.bytesRead, t.bytesPerSecond) = DivideFault

\* a tick of the renderer goroutine: updateTerminal over every task; a panic
\* in this goroutine is not recovered and ends the process
RenderTick ==
    /\ Alive
    /\ orch.pc # "done"
    /\ orch' = [orch EXCEPT !.isFirstUpdate = FALSE,
                            !.crashed = \E i \in 1..NTasks : RenderFaults(tasks[i])]
    /\ UNCHANGED <<urlPath, contentDisposition, resourceLen, fs, fs0, now, completionChan,
                   source, sourceErr, destination, bytesPerSecond, error, startTime, endTime,
                   bytesRead, totalFileSize, fileName, isResumable, rateLimiter, pc, response,
                   localFileName, fileInfo, err, n, bytesWritten, buffer, panicValue, spc,
                   lastCheck, previousBytes, ticker, sample, requests, fsCalls, reads,
                   writeFault, addedBefore, stalled, tasks>>

OrchStep == WaitTask \/ FinalSleep \/ PrintCompleted

NextMain ==
    \/ \E i \in 1..NTasks : TaskFail(i) \/ TaskCopy(i) \/ TaskSample(i) \/ TaskEnd(i)
    \/ OrchStep
    \/ RenderTick

SpecMain == InitMain /\ [][NextMain]_vars

\* the Go scheduler runs the main goroutine whenever it is runnable
FairSpecMain == SpecMain /\ WF_vars(OrchStep)

TypeOK ==
    /\ completionChan \in 0..2
    /\ bytesRead \in 0..(MaxExisting + MaxLen)
    /\ pc \in {"request", "extract", "stat", "range", "open", "create", "setup", "go",
               "starttime", "limit", "sleep", "read", "write", "add", "seterr", "close",
               "endtime", "recover", "rec_close", "rec_end", "done"}
    /\ spc \in {"off", "init", "select", "store", "exit"}

\* ---------------------------------------------------------------- properties
\* the task has handed off to the copy loop: Setup has run
Streaming == pc = "go" \/ spc # "off"

\* the task has reached the end of start by one of its returns
Returned == pc = "done"

\* C1: whichever way start ends, close(dt.completionChan) has been executed
\* exactly once when it returns, and never more than once before
C1_CompletionFiresExactlyOnce ==
    /\ completionChan <= 1
    /\ Returned => completionChan = 1

\* start has returned through the recovery of a fault
C1_Witness == Returned /\ error = ErrNilDeref /\ completionChan = 1

\* C2: once the completion signal has fired no step writes dt.bytesRead,
\* dt.error or the destination file
C2_NoWriteAfterCompletion ==
    [][completionChan > 0 => UNCHANGED <<bytesRead, error, fs>>]_vars

\* the signal has fired after bytes were copied, and start still has a step to take
C2_Witness == completionChan = 1 /\ pc = "endtime" /\ bytesRead > 0 /\ fs # fs0

\* C3: once the completion signal has fired no goroutine writes any field of
\* the task, the end time and the measured throughput included
C3_FieldsStableAfterCompletion ==
    [][completionChan > 0 =>
          UNCHANGED <<bytesPerSecond, error, startTime, endTime, bytesRead,
                      totalFileSize, fileName, isResumable>>]_vars

\* C4: dt.bytesRead never decreases; it changes only by the resume seeding
\* and by the loop adding the count of a read whose bytes were all written
C4_BytesReadMonotonic ==
    [][/\ bytesRead' >= bytesRead
       /\ bytesRead' # bytesRead =>
             \/ pc = "open" /\ bytesRead' = fileInfo.size
             \/ /\ pc = "add"
                /\ bytesRead' = bytesRead + n
                /\ bytesWritten = n
                /\ err = NoError
                /\ Len(fs.content) >= n
                /\ SubSeq(fs.content, Len(fs.content) - n + 1, Len(fs.content)) = buffer]_vars

\* a resumed task has added to its seeded counter
C4_Witness == isResumable /\ fileInfo.size > 0 /\ bytesRead > fileInfo.size

\* the run is a fresh download without a ceiling whose body was delivered to
\* end-of-stream and whose writes all succeeded
FreshDownload ==
    /\ fs0.kind = "none"
    /\ rateLimiter.limit <= 0
    /\ ~writeFault
    /\ sourceErr = EOF
    /\ Streaming

\* C5: a fresh download of a body of length L ends with bytesRead = L, L bytes
\* in the destination file and io.EOF as the captured error
C5_FreshDownloadCounts ==
    Returned /\ FreshDownload =>
        /\ bytesRead = resourceLen
        /\ Len(fs.content) = resourceLen
        /\ error = EOF

\* a fresh download of the longest resource, delivered in more than one read
C5_Witness ==
    Returned /\ FreshDownload /\ resourceLen = MaxLen /\ reads > 2 /\ bytesRead = MaxLen

\* the size of the file found on disk when the task was created
ExistingSize == Len(fs0.content)

\* the request was repeated with a Range header and the server answered 206
\* with the rest of the resource
RangeHonoured ==
    /\ fs0.kind = "file"
    /\ Len(requests) = 2
    /\ ~requests[2].nil
    /\ requests[2].status = StatusPartialContent

\* the task has opened the existing file to append to it
Resumed == RangeHonoured /\ isResumable

\* the resumed download ended at end-of-stream
ResumeCompleted == Resumed /\ Returned /\ error = EOF

\* the parts of resume correctness that do not concern the total size
ResumeCommon ==
    /\ RangeHonoured => requests[2].range = ExistingSize
    /\ Resumed =>
          /\ bytesRead >= ExistingSize
          /\ Len(fs.content) >= ExistingSize
          /\ SubSeq(fs.content, 1, ExistingSize) = fs0.content
    /\ ResumeCompleted =>
          /\ bytesRead = resourceLen
          /\ fs.content = Resource

\* C6 as stated: the resumed task asks for offset S, seeds bytesRead with S,
\* sets the total to S + the content length of the new response, only appends,
\* and on completion has bytesRead = F and the file of an uninterrupted download
C6_ResumeTotalAlwaysSum ==
    /\ ResumeCommon
    /\ Resumed /\ Streaming => totalFileSize = ExistingSize + requests[2].contentLength

\* C6 amended: the total is S + the content length of the new response when
\* that length is positive, and the (unknown) content length itself otherwise
C6_ResumeCorrect ==
    /\ ResumeCommon
    /\ Resumed /\ Streaming =>
          totalFileSize = IF requests[2].contentLength > 0
                          THEN ExistingSize + requests[2].contentLength
                          ELSE requests[2].contentLength

\* a partial file was completed by a resumed download
C6_Witness ==
    /\ ResumeCompleted
    /\ ExistingSize > 0
    /\ ExistingSize < resourceLen
    /\ totalFileSize = resourceLen
    /\ fs.content = Resource

\* a regular file of the declared content length was found under the derived name
AlreadyComplete ==
    /\ pc \notin {"request", "extract", "stat"}
    /\ fileInfo.exists
    /\ ~fileInfo.isDir
    /\ fileInfo.size = requests[1].contentLength

\* C7: when the existing regular file has the declared content length the task
\* goes straight to its end with the "file already downloaded" error, fires
\* completion, reads nothing of the body, sends no range request and leaves
\* the file as it was
C7_AlreadyDownloaded ==
    AlreadyComplete =>
        /\ pc \in {"close", "endtime", "done"}
        /\ error = ErrAlreadyDownloaded
        /\ reads = 0
        /\ Len(requests) = 1
        /\ fs = fs0
        /\ destination = "nil"
        /\ Returned => completionChan = 1

\* a task has returned because its non-empty file was already complete
C7_Witness == AlreadyComplete /\ Returned /\ fileInfo.size > 0

\* the last request ended in a network error or a status other than 200/206
RequestFailed ==
    /\ requests # <<>>
    /\ LET x == requests[Len(requests)] IN x.nil \/ ~(x.status \in {StatusOK, StatusPartialContent})

\* C8: after a failed request (the first or the range one) the task only runs
\* to its end: it has a non-nil error when it fires completion, and it has
\* neither opened, created, truncated nor written a file, nor read the body
C8_RequestFailureEndsTask ==
    RequestFailed =>
        /\ pc \in {"recover", "rec_close", "rec_end", "close", "endtime", "done"}
        /\ pc # "recover" => error # NoError
        /\ fs = fs0
        /\ destination = "nil"
        /\ reads = 0
        /\ \A i \in 1..Len(fsCalls) : fsCalls[i][1] = "Stat"
        /\ Returned => completionChan = 1

\* the range request of a task that found a partial file was refused
C8_Witness ==
    /\ RequestFailed
    /\ Returned
    /\ Len(requests) = 2
    /\ requests[2].status = StatusRangeNotSatisfiable
    /\ error = ErrHTTPStatus

\* the name the response carries, before extractFilename looks at it
DerivedName == IF contentDisposition # NoHeader THEN contentDisposition ELSE urlPath

\* the names the claim wants refused
RefusedName ==
    \/ DerivedName = <<>>
    \/ HasSuffixSlash(DerivedName)
    \/ ContainsNUL(DerivedName)
    \/ ContainsDotDotSlash(DerivedName)

\* C9: when the derived name is empty, ends in a separator, contains a NUL or
\* contains "../", the task ends with the filename failure as its error and
\* hands no name to os.Stat, os.OpenFile or os.Create
C9_BadNameRejected ==
    Returned /\ ~RequestFailed /\ RefusedName =>
        /\ error = ErrMissingFilename
        /\ fsCalls = <<>>
        /\ fs = fs0

\* opening the existing file or creating the destination has failed
OpenFailed == err = ErrOpen /\ pc \in {"close", "endtime", "done"}

\* C10: when OpenFile or Create fails the task ends with that failure as its
\* non-nil error, fires completion, launches no sampler and reads no bytes
C10_OpenFailureCaptured ==
    OpenFailed =>
        /\ error # NoError
        /\ spc = "off"
        /\ reads = 0
        /\ Returned => completionChan = 1

\* C11: when a Write fails or is short the task stops without adding the chunk
\* to dt.bytesRead, and its error at completion is io.ErrShortWrite
C11_ShortWriteCaptured ==
    writeFault =>
        /\ pc \in {"seterr", "close", "endtime", "done"}
        /\ bytesRead = Len(fs.content) - bytesWritten
        /\ pc \in {"close", "endtime", "done"} => error = ErrShortWrite

\* C16: the sampler takes its first lastCheck from a start time that has
\* already been recorded
C16_StartTimeBeforeSampler ==
    spc \in {"select", "store", "exit"} => lastCheck # 0 /\ lastCheck <= startTime

\* C17: after a Read has returned an error, with or without bytes, no further
\* Read is issued, and that error is the one stored at the end of the loop
C17_LoopStopsAtFirstReadError ==
    [][/\ sourceErr # NoError => reads' = reads
       /\ pc = "seterr" /\ pc' = "close" /\ sourceErr # NoError /\ ~writeFault =>
             error' = sourceErr]_vars

\* the body of the last response begins at offset s of the resource
BodyBeginsAt(s) == response.body = SubSeq(Resource, s + 1, resourceLen)

\* C18: a task that resumes appends a body that begins at the offset of the
\* existing size; a whole resource is never appended after a non-empty file
C18_AppendsOnlyFromOffset ==
    /\ isResumable /\ pc \in {"setup", "go"} => BodyBeginsAt(fileInfo.size)
    /\ isResumable /\ fileInfo.size > 0 /\ resourceLen > 0 /\ Returned =>
          Len(fs.content) # fileInfo.size + resourceLen

\* the loop is between two iterations
BetweenIterations == pc \in {"limit", "sleep", "read"}

\* C20: while the destination is open dt.bytesRead is at most the size of the
\* file; the two are equal between iterations and at completion by io.EOF
C20_CounterWithinFile ==
    destination = "open" =>
        /\ bytesRead <= Len(fs.content)
        /\ BetweenIterations => bytesRead = Len(fs.content)
        /\ Returned /\ error = EOF => bytesRead = Len(fs.content)

\* a short write has left more bytes in a resumed file than the counter holds
C20_Witness ==
    /\ destination = "open"
    /\ Returned
    /\ writeFault
    /\ isResumable
    /\ bytesRead < Len(fs.content)

\* C19: the bytes a sample is computed from (stored throughput times the
\* interval) are at most the bytes the loop added to dt.bytesRead since the
\* sampler last woke, also for the first sample of a resumed task
C19_SampleCountsOnlyTransferred ==
    [][spc = "select" /\ spc' = "store" => sample'[1] <= Added - addedBefore]_vars

\* C15: whenever the renderer asks for it, the ETA string is "N/A" unless
\* the total size and the stored throughput are both positive, and then it is
\* the formatting of (total - bytesRead) / throughput
C15_ETAStringContract ==
    RendererAsksETA(error, bytesRead) =>
        LET eta == getETAString(totalFileSize, bytesRead, bytesPerSecond) IN
        IF totalFileSize > 0 /\ bytesPerSecond[1] > 0
        THEN /\ eta \notin {NotAvailable, DivideFault}
             /\ bytesPerSecond[2] # MaxDuration =>
                   eta = durationToString(
                            TruncDiv((totalFileSize - bytesRead) * bytesPerSecond[2],
                                     bytesPerSecond[1]))
        ELSE eta = NotAvailable

\* C12: with prefix "50:" and a source that never keeps the loop waiting and
\* always fills the buffer, at most about 160,000 bytes are transferred in the
\* first 3 seconds
C12_ThreeSecondVolume ==
    /\ rateLimiter.limit = CeilingBytes(50)
    /\ ~stalled
    /\ now - startTime < 3 * Second
    => bytesRead <= 160 * 1000

\* C13: wait(current) sleeps when at most a second has passed since the
\* checkpoint and the bytes since the checkpoint have reached the ceiling, and
\* wakes no earlier than a second after the checkpoint with the checkpoint set
\* to (now, current); when more than a second has passed it sets the
\* checkpoint to (now, current) at once; otherwise it changes nothing
C13_WaitContract ==
    [][/\ pc = "limit" /\ pc' # "limit" =>
             LET elapsed == now - rateLimiter.lastCheckTime
                 since == bytesRead - rateLimiter.lastReadBytes
             IN IF elapsed <= Second /\ since >= rateLimiter.limit
                THEN /\ pc' = "sleep"
                     /\ rateLimiter'.wakeAt = rateLimiter.lastCheckTime + Second
                     /\ rateLimiter'.lastCheckTime = rateLimiter.lastCheckTime
                     /\ rateLimiter'.lastReadBytes = rateLimiter.lastReadBytes
                ELSE IF elapsed > Second
                     THEN /\ pc' = "read"
                          /\ rateLimiter'.lastCheckTime = now
                          /\ rateLimiter'.lastReadBytes = bytesRead
                     ELSE pc' = "read" /\ rateLimiter' = rateLimiter
       /\ pc = "sleep" /\ pc' # "sleep" =>
             /\ now >= rateLimiter.lastCheckTime + Second
             /\ pc' = "read"
             /\ rateLimiter'.lastCheckTime = now
             /\ rateLimiter'.lastReadBytes = bytesRead]_vars

\* a call has slept to the end of its window and set the checkpoint on waking
C13_Witness ==
    /\ pc = "read"
    /\ ~stalled
    /\ rateLimiter.lastCheckTime = now
    /\ rateLimiter.lastCheckTime > startTime
    /\ rateLimiter.lastReadBytes = bytesRead
    /\ bytesRead >= rateLimiter.limit

AllFired == \A i \in 1..NTasks : tasks[i].fired

Printed == orch.pc = "done"

\* C14: the completion line is printed only after every task's completion
\* signal has fired, and if every task fires its signal the line is
\* eventually printed
C14_PrintsAfterAllFired ==
    /\ [](Printed => AllFired)
    /\ (<>AllFired => <>Printed)

\* C21: at no moment at which a render tick would ask for a task's ETA does
\* getETAString divide by zero, whatever throughput the sampler has stored
\* and whatever the total size is
C21_RenderTickNeverFaults ==
    RendererAsksETA(error, bytesRead) =>
        getETAString(totalFileSize, bytesRead, bytesPerSecond) # DivideFault

====
